---- MODULE Spec2Model ----
(***************************************************************************)
(* Admission handlers (send_transaction, send_transaction_batch) and the   *)
(* retry loop of the iris RPC server, src/src/rpc_server.rs, as a state    *)
(* machine.  Every store access and every call of the downstream sender is *)
(* a step of its own, so the RPC task and the retry task interleave as two *)
(* tokio tasks do; statements that touch only a task's own variables run   *)
(* with the step before them.                                              *)
(***************************************************************************)
EXTENDS Integers, Sequences, FiniteSets, TLC

(***************************************************************************)
(* Bounds of the model.                                                    *)
(***************************************************************************)
\* RPC calls started in one behaviour.
MaxCalls == 2
\* Ticks of the retry loop started in one behaviour.
MaxTicks == 1
\* The clock stops advancing beyond this many seconds.
MaxTime == 61
\* Chain slots run over 0..MaxSlot.
MaxSlot == 1
\* The server's max_retries (a configuration value, rpc_server.rs:27).
ServerMaxRetries == 2
\* Instructions of a transaction the tip policy is evaluated on by itself.
MaxInstructions == 2

(***************************************************************************)
(* Program constants.                                                      *)
(***************************************************************************)
DEFAULT_MINIMUM_TIP == 1000
\* batch.len() > 10
MaxBatchSize == 10
\* transactions_to_send.chunks(10)
RetryChunkSize == 10
\* Duration::from_secs(60)
StaleAfterSecs == 60

(***************************************************************************)
(* Option values.                                                          *)
(***************************************************************************)
None == [some |-> FALSE]
Some(v) == [some |-> TRUE, val |-> v]
IsSome(o) == o.some
UnwrapOr(o, d) == IF o.some THEN o.val ELSE d

Min(a, b) == IF a <= b THEN a ELSE b
SaturatingSub(a, b) == IF a >= b THEN a - b ELSE 0

(***************************************************************************)
(* Transactions.  A wire transaction is named by its bytes ("w1", "w2",    *)
(* ...); TxTable gives what the bytes deserialize to.  Indices into the    *)
(* account key table are 0-based as in the code.  There are enough         *)
(* transactions to fill one chunk of the retry loop and start another.     *)
(***************************************************************************)
NumWires == RetryChunkSize + 2
WireOf(n) == "w" \o ToString(n)
WireNo(w) == CHOOSE n \in 1..NumWires : WireOf(n) = w

SystemProgram == "11111111111111111111111111111111"
TipAccount == "TipA"

Transfer(l) == [kind |-> "Transfer", lamports |-> l]

TxTable ==
    [w \in {WireOf(n) : n \in 1..NumWires} |->
        IF w = "w1"
        THEN [signatures |-> <<"S1">>,
              static_keys |-> <<"payer1", TipAccount, SystemProgram, "other">>,
              instructions |->
                 << [program_id_index |-> 3, accounts |-> <<0, 1>>,
                     data |-> [kind |-> "Other"]],
                    [program_id_index |-> 2, accounts |-> <<0, 1>>,
                     data |-> Transfer(2000)] >>]
        ELSE IF w = "w2"
        THEN [signatures |-> <<"S2">>,
              static_keys |-> <<"payer2", TipAccount, SystemProgram>>,
              instructions |->
                 << [program_id_index |-> 2, accounts |-> <<0, 1>>,
                     data |-> Transfer(999)] >>]
        ELSE [signatures |-> <<"S" \o ToString(WireNo(w))>>,
              static_keys |-> <<"payer", TipAccount, SystemProgram>>,
              instructions |->
                 << [program_id_index |-> 2, accounts |-> <<0, 1>>,
                     data |-> Transfer(DEFAULT_MINIMUM_TIP)] >>]]

Wires == DOMAIN TxTable

\* versioned_transaction.get_signature().to_string(): the first signature,
\* in base 58.
GetSignature(vt) == TxTable[vt].signatures[1]

\* static_keys.get(i), instruction.accounts.get(i): 0-based, None out of range.
Get(seq, i) == IF i >= 0 /\ i < Len(seq) THEN Some(seq[i + 1]) ELSE None

(***************************************************************************)
(* Client strings.  "b58:w" and "b64:w" are the base-58 and base-64        *)
(* encodings of the bytes w; "S1", "S2", ... are the base-58 signature     *)
(* strings (64 bytes, no transaction); "garbage" decodes under neither.    *)
(***************************************************************************)
Base58Of == [w \in Wires |-> "b58:" \o w]
Base64Of == [w \in Wires |-> "b64:" \o w]

Err(reason) == [ok |-> FALSE, reason |-> reason]
Ok(v) == [ok |-> TRUE, value |-> v]

\* encoding.into_binary_encoding()
IntoBinaryEncoding(encoding) ==
    IF encoding \in {"base58", "base64"} THEN Some(encoding) ELSE None

\* decode_and_deserialize::<VersionedTransaction>(txn, binary_encoding):
\* the decoded bytes and the transaction they deserialize to (held by the
\* name of its bytes: TxTable gives its content), or an error.
DecodeAndDeserialize(text, binary_encoding) ==
    LET hits == {w \in Wires :
                    \/ binary_encoding = "base58" /\ text = Base58Of[w]
                    \/ binary_encoding = "base64" /\ text = Base64Of[w]}
    IN  IF hits = {}
        THEN Err("decode error")
        ELSE LET w == CHOOSE x \in hits : TRUE
             IN  Ok([wire_transaction |-> w, versioned_transaction |-> w])

(***************************************************************************)
(* Tip policy.                                                             *)
(***************************************************************************)
\* self.minimum_tip.unwrap_or(DEFAULT_MINIMUM_TIP)
MinimumTipOf(minimum_tip) == UnwrapOr(minimum_tip, DEFAULT_MINIMUM_TIP)

\* One pass of the loop body of pays_minimum_tip: does this instruction
\* make the function return true?
InstructionPaysTip_Above(instruction, static_keys, tip_addr, minimum_tip) ==
    LET program_id == Get(static_keys, instruction.program_id_index)
    IN  /\ IsSome(program_id)
        /\ program_id.val = SystemProgram
        /\ instruction.data.kind = "Transfer"
        /\ LET recipient_idx == Get(instruction.accounts, 1)
           IN  /\ IsSome(recipient_idx)
               /\ LET recipient == Get(static_keys, recipient_idx.val)
                  IN  /\ IsSome(recipient)
                      /\ recipient.val = tip_addr.val
                      /\ instruction.data.lamports > MinimumTipOf(minimum_tip)
InstructionPaysTip(instruction, static_keys, tip_addr, minimum_tip) ==
    LET program_id == Get(static_keys, instruction.program_id_index)
    IN  /\ IsSome(program_id)
        /\ program_id.val = SystemProgram
        /\ instruction.data.kind = "Transfer"
        /\ LET recipient_idx == Get(instruction.accounts, 1)
           IN  /\ IsSome(recipient_idx)
               /\ LET recipient == Get(static_keys, recipient_idx.val)
                  IN  /\ IsSome(recipient)
                      /\ recipient.val = tip_addr.val
                      /\ instruction.data.lamports >= MinimumTipOf(minimum_tip)

PaysMinimumTip(vt, tip_addr, minimum_tip) ==
    IF ~IsSome(tip_addr)
    THEN TRUE
    ELSE \E n \in 1..Len(vt.instructions) :
            InstructionPaysTip(vt.instructions[n], vt.static_keys,
                               tip_addr, minimum_tip)

(***************************************************************************)
(* The transaction store (crate::store): a concurrent map from the         *)
(* signature string to the TransactionData, here a function whose domain   *)
(* is the set of keys present.                                             *)
(***************************************************************************)
\* TransactionData::new(wire_transaction, versioned_transaction, slot,
\* max_retries): sent_at is the instant of construction, retry_count the
\* last argument.
TransactionDataNew(wire, vt, slot, max_retries, instant) ==
    [wire_transaction |-> wire, versioned_transaction |-> vt, slot |-> slot,
     sent_at |-> instant, retry_count |-> max_retries]

\* has_signature(s)
StoreHas(st, s) == s \in DOMAIN st

\* add_transaction(td): keyed by the transaction's signature; under a key
\* already present the new entry wins or is ignored (wins).
StoreAdd(st, td, wins) ==
    LET key == GetSignature(td.versioned_transaction)
    IN  IF key \in DOMAIN st
        THEN IF wins THEN [st EXCEPT ![key] = td] ELSE st
        ELSE [k \in DOMAIN st \cup {key} |-> IF k = key THEN td ELSE st[k]]

\* remove_transaction(s): no error if absent.
StoreRemove(st, s) == [k \in DOMAIN st \ {s} |-> st[k]]

EmptyStore == [k \in {} |-> None]

\* The downstream sender: per wire it was handed, how often by an admission
\* and how often by the retry loop.
NoSends == [admission |-> 0, retry |-> 0]
Handed(snd, w) == IF w \in DOMAIN snd THEN snd[w] ELSE NoSends

(***************************************************************************)
(* Inputs of the RPC methods.                                              *)
(***************************************************************************)
\* RpcSendTransactionConfig: skip_preflight, encoding, max_retries.
Params(skip_preflight, encoding, max_retries) ==
    [skip_preflight |-> skip_preflight, encoding |-> encoding,
     max_retries |-> max_retries]

DefaultParams == Params(TRUE, None, None)

\* send_transaction: a transaction with each retry budget a client may ask
\* for, its base-64 form, a transaction without a tip, and one request per
\* check that can fail ("S1" is a duplicate when S1 is stored and fails to
\* decode otherwise).
SingleInputs ==
    {<<"b58:w1", DefaultParams>>,
     <<"b58:w1", Params(TRUE, None, Some(0))>>,
     <<"b58:w1", Params(TRUE, None, Some(ServerMaxRetries + 1))>>,
     <<"b64:w1", Params(TRUE, Some("base64"), None)>>,
     <<"b58:w2", DefaultParams>>,
     <<"b58:w1", Params(TRUE, Some("json"), None)>>,
     <<"b58:w1", Params(FALSE, None, None)>>,
     <<"S1", DefaultParams>>}

Repeat(x, n) == [j \in 1..n |-> x]

\* send_transaction_batch: batches that succeed, batches that fail at their
\* first, second or third element, and batches of max_batch_size and
\* max_batch_size + 1 strings.
BatchInputs ==
    {<<<<>>, DefaultParams>>,
     <<<<"b58:w1", "b58:w2">>, DefaultParams>>,
     <<<<"b58:w1", "b58:w2">>, Params(FALSE, None, None)>>,
     <<<<"b58:w1", "S1">>, Params(TRUE, None, Some(0))>>,
     <<<<"b58:w2", "b58:w1", "garbage">>, DefaultParams>>,
     <<Repeat("garbage", MaxBatchSize), DefaultParams>>,
     <<Repeat("garbage", MaxBatchSize + 1), DefaultParams>>}

Tasks == {"rpc1"}

VARIABLES
    store,          \* the transaction store
    rpc,            \* per RPC task: its position and local variables, the
                    \* number of its calls of the sender (forwards), and of
                    \* the signatures it added those that the retry loop
                    \* has removed since (evicted)
    retry,          \* the retry task: its position and local variables;
                    \* what this tick added to the metrics (landed: the
                    \* increments of iris_txn_landed, latencies: the values
                    \* recorded to iris_txn_slot_latency); the keys the
                    \* oracle confirmed in this tick (confirmed) with the
                    \* slots it gave (confirmed_at); and the keys this tick
                    \* has passed to remove_transaction (removed)
    shutdown,       \* the cancellation flag
    now,            \* the monotonic clock, in seconds
    sender,         \* what the downstream sender was handed, per wire
    calls,          \* RPC calls started
    ticks,          \* retry ticks started
    ever_added,     \* signatures ever passed to store.add
    last_ok,        \* the client string of the last call, if that call was a
                    \* send_transaction that returned Ok
    admitted,       \* per signature in the store: the retry_count its entry
                    \* was added with (n) and the number of scans of the
                    \* retry loop that have visited the entry since (scans)
    tipcheck        \* the last evaluation of the tip policy on its own: the
                    \* transaction, the configuration and the verdict

vars == <<store, rpc, retry, shutdown, now, sender, calls, ticks, ever_added,
          last_ok, admitted, tipcheck>>

\* Configuration: a tip address is set, minimum_tip is left unset (the
\* default applies).
tip_address == Some(TipAccount)
minimum_tip == None

\* chain_state.get_slot(): the chain's slot advances with the clock, one
\* slot per stale_after period.
CurrentSlot(instant) == instant \div StaleAfterSecs

IdleTask ==
    [pc |-> "idle", kind |-> "none", batch |-> <<>>, params |-> None, i |-> 0,
     decoded |-> None, signature |-> None, transaction |-> None,
     wired_transactions |-> <<>>,
     signatures |-> <<>>, result |-> None, forwards |-> 0, evicted |-> {}]

IdleRetry ==
    [pc |-> "top", pending |-> {}, transactions_to_remove |-> <<>>,
     transactions_to_send |-> <<>>, landed |-> 0, latencies |-> <<>>,
     confirmed |-> {}, confirmed_at |-> EmptyStore, removed |-> {},
     scanned |-> <<>>, batches |-> <<>>]

InitServer ==
    /\ store = EmptyStore
    /\ rpc = [t \in Tasks |-> IdleTask]
    /\ retry = IdleRetry
    /\ shutdown = FALSE
    /\ now = 0
    /\ sender = [w \in {} |-> NoSends]
    /\ calls = 0
    /\ ticks = 0
    /\ ever_added = {}
    /\ last_ok = None
    /\ admitted = EmptyStore

Init == InitServer /\ tipcheck = None

(***************************************************************************)
(* The RPC handlers.  The statements of a handler run in program order;    *)
(* pc names the statement a task is about to run.  A statement that        *)
(* touches the store or the sender is a step of its own; the statements    *)
(* between two such steps (decoding, the tip check, the construction of    *)
(* the TransactionData) run with the step before them.                     *)
(***************************************************************************)
\* send_transaction: the duplicate check, the preflight/encoding/decode
\* checks, the tip check, the construction of the TransactionData, the
\* store add, the first send, the return.
SingleSteps_NoAdd == <<"has", "decode", "tip", "build", "send", "ret">>
SingleSteps_TipAfterAdd ==
    <<"has", "decode", "build", "add", "tip", "send", "ret">>
SingleSteps_SendBeforeAdd ==
    <<"has", "decode", "tip", "build", "send", "add", "ret">>
SingleSteps == <<"has", "decode", "tip", "build", "add", "send", "ret">>

\* One pass of the loop of send_transaction_batch.
BatchElementSteps == <<"has", "decode", "build", "add">>

IndexOf(seq, x) == CHOOSE n \in 1..Len(seq) : seq[n] = x
After(seq, x) == seq[IndexOf(seq, x) + 1]
Last(seq) == seq[Len(seq)]

\* The task record after statement r.pc ran to its end without returning.
Advance(r) ==
    IF r.kind = "single"
    THEN [r EXCEPT !.pc = After(SingleSteps, r.pc)]
    ELSE IF r.pc # Last(BatchElementSteps)
    THEN [r EXCEPT !.pc = After(BatchElementSteps, r.pc)]
    ELSE IF r.i < Len(r.batch)
    THEN [r EXCEPT !.pc = BatchElementSteps[1], !.i = r.i + 1,
                   !.decoded = None, !.signature = None, !.transaction = None]
    ELSE [r EXCEPT !.pc = "send_batch",
                   !.decoded = None, !.signature = None, !.transaction = None]

\* return Err(invalid_request(reason))
Fail_Continue(r, reason) ==
    IF r.kind = "batch" /\ r.i < Len(r.batch)
    THEN [r EXCEPT !.pc = BatchElementSteps[1], !.i = r.i + 1,
                   !.result = Some(Err(reason))]
    ELSE [r EXCEPT !.pc = "ret", !.result = Some(Err(reason))]
Fail(r, reason) == [r EXCEPT !.pc = "ret", !.result = Some(Err(reason))]

\* The client string the task is working on.
CurText(r) == r.batch[r.i]

\* What the call returns: the error, or the signatures (of send_transaction,
\* the one signature).
ReturnValue(r) ==
    IF IsSome(r.result) THEN r.result.val
    ELSE IF r.kind = "single" THEN Ok(<<r.signature.val>>) ELSE Ok(r.signatures)

\* self.store.has_signature(&txn)
IsDuplicate(st, txn) == StoreHas(st, txn)

\* batch.len() > 10
BatchTooLarge_AtLimit(batch) == Len(batch) >= MaxBatchSize
BatchTooLarge(batch) == Len(batch) > MaxBatchSize

\* The checks between the duplicate check and the tip check: preflight,
\* encoding, decoding.  Ok(wire, transaction) or the error.
DecodeOutcome(txn, params) ==
    LET encoding == UnwrapOr(params.encoding, "base58")
    IN  IF ~params.skip_preflight
        THEN Err("running preflight check is not supported")
        ELSE LET binary_encoding == IntoBinaryEncoding(encoding)
             IN  IF ~IsSome(binary_encoding)
                 THEN Err("unsupported encoding")
                 ELSE DecodeAndDeserialize(txn, binary_encoding.val)

\* params.max_retries.unwrap_or(self.max_retries as usize)
RequestedRetries(params) == UnwrapOr(params.max_retries, ServerMaxRetries)

\* TransactionData::new(wire_transaction, versioned_transaction, slot, ...)
BuildTransaction_OtherBytes(decoded, slot, params, instant) ==
    TransactionDataNew(CHOOSE w \in Wires : w # decoded.wire_transaction,
                       decoded.versioned_transaction,
                       slot, RequestedRetries(params), instant)
BuildTransaction(decoded, slot, params, instant) ==
    TransactionDataNew(decoded.wire_transaction, decoded.versioned_transaction,
                       slot, RequestedRetries(params), instant)

\* The statement "decode": preflight, encoding, decode_and_deserialize.
DecodeStmt(r) ==
    LET d == DecodeOutcome(CurText(r), r.params)
    IN  IF d.ok
        THEN Advance([r EXCEPT !.decoded = Some(d.value)])
        ELSE Fail(r, d.reason)

\* The statement "tip": if !self.pays_minimum_tip(..) { return Err(..) }
TipStmt(r) ==
    IF PaysMinimumTip(TxTable[r.decoded.val.versioned_transaction],
                      tip_address, minimum_tip)
    THEN Advance(r)
    ELSE Fail(r, "no tip in the transaction or pays less than minimum tip")

\* The statement "build": signature, get_slot(), TransactionData::new(..).
BuildStmt(r, instant) ==
    Advance([r EXCEPT
        !.signature = Some(GetSignature(r.decoded.val.versioned_transaction)),
        !.transaction =
            Some(BuildTransaction(r.decoded.val, CurrentSlot(instant),
                                  r.params, instant))])

\* The statement "size": if batch.len() > 10 { return Err(..) }, then the
\* head of the loop.
SizeStmt(r) ==
    IF BatchTooLarge(r.batch)
    THEN Fail(r, "batch size exceeded")
    ELSE IF Len(r.batch) = 0
    THEN [r EXCEPT !.pc = "send_batch"]
    ELSE [r EXCEPT !.pc = BatchElementSteps[1], !.i = 1]

\* The task runs on to its next statement that touches the store or the
\* sender, or to its return.
RECURSIVE Settle(_, _)
Settle(task, instant) ==
    CHOOSE settled \in
        {IF r.pc = "size" THEN Settle(SizeStmt(r), instant)
         ELSE IF r.pc = "decode" THEN Settle(DecodeStmt(r), instant)
         ELSE IF r.pc = "tip" THEN Settle(TipStmt(r), instant)
         ELSE IF r.pc = "build" THEN Settle(BuildStmt(r, instant), instant)
         ELSE r : r \in {task}} : TRUE

CountIn(seq, w) == Cardinality({n \in 1..Len(seq) : seq[n] = w})
Range(seq) == {seq[n] : n \in 1..Len(seq)}

\* The downstream sender after send_transaction_batch(wires) by `who`.
SenderAfter(snd, wires, who) ==
    [w \in DOMAIN snd \cup Range(wires) |->
        IF who = "admission"
        THEN [Handed(snd, w) EXCEPT !.admission = @ + CountIn(wires, w)]
        ELSE [Handed(snd, w) EXCEPT !.retry = @ + CountIn(wires, w)]]

CallSingleOf(t, inputs, max_calls) ==
    /\ rpc[t].pc = "idle"
    /\ calls < max_calls
    /\ \E input \in inputs :
          rpc' = [rpc EXCEPT ![t] =
                    [IdleTask EXCEPT !.pc = SingleSteps[1], !.kind = "single",
                                     !.batch = <<input[1]>>,
                                     !.params = input[2], !.i = 1]]
    /\ calls' = calls + 1
    /\ UNCHANGED <<store, retry, shutdown, now, sender, ticks, ever_added, last_ok, admitted, tipcheck>>

CallSingle(t) == CallSingleOf(t, SingleInputs, MaxCalls)

CallBatchOf(t, inputs, max_calls) ==
    /\ rpc[t].pc = "idle"
    /\ calls < max_calls
    /\ \E input \in inputs :
          rpc' = [rpc EXCEPT ![t] =
                    Settle([IdleTask EXCEPT !.pc = "size", !.kind = "batch",
                                            !.batch = input[1],
                                            !.params = input[2]], now)]
    /\ calls' = calls + 1
    /\ UNCHANGED <<store, retry, shutdown, now, sender, ticks, ever_added, last_ok, admitted, tipcheck>>

CallBatch(t) == CallBatchOf(t, BatchInputs, MaxCalls)

\* if self.store.has_signature(&txn) { return Err(duplicate) }
HasSignature(t) ==
    /\ rpc[t].pc = "has"
    /\ LET r == rpc[t]
       IN  rpc' = [rpc EXCEPT ![t] =
                     IF IsDuplicate(store, CurText(r))
                     THEN Fail(r, "duplicate transaction")
                     ELSE Settle(Advance(r), now)]
    /\ UNCHANGED <<store, retry, shutdown, now, sender, calls, ticks, ever_added, last_ok, admitted, tipcheck>>

\* self.store.add_transaction(transaction.clone()), and in the batch the two
\* pushes.  Under a key already present the store lets the new entry win
\* or ignores it.  A key that is new to the map while the retry loop
\* iterates it is visited by the iteration or not.
Add(t) ==
    /\ rpc[t].pc = "add"
    /\ LET r == rpc[t]
           td == r.transaction.val
           sig == GetSignature(td.versioned_transaction)
       IN  /\ \E wins \in BOOLEAN :
                 /\ store' = StoreAdd(store, td, wins)
                 /\ admitted' =
                        IF StoreHas(store, sig) /\ ~wins
                        THEN admitted
                        ELSE [k \in DOMAIN store' |->
                                IF k = sig
                                THEN [n |-> td.retry_count, scans |-> 0]
                                ELSE admitted[k]]
           /\ ever_added' = ever_added \cup {sig}
           /\ rpc' = [rpc EXCEPT ![t] =
                        Settle(Advance([r EXCEPT
                           !.wired_transactions =
                               Append(r.wired_transactions, td.wire_transaction),
                           !.signatures = Append(r.signatures, sig),
                           !.evicted = r.evicted \ {sig}]), now)]
           /\ IF retry.pc = "scan" /\ sig \notin DOMAIN store
              THEN \E visited \in BOOLEAN :
                      retry' = IF visited
                               THEN [retry EXCEPT !.pending = @ \cup {sig}]
                               ELSE retry
              ELSE retry' = retry
    /\ UNCHANGED <<shutdown, now, sender, calls, ticks, last_ok, tipcheck>>

\* self.txn_sender.send_transaction(transaction.wire_transaction)
Send(t) ==
    /\ rpc[t].pc = "send"
    /\ sender' = SenderAfter(sender,
                             <<rpc[t].transaction.val.wire_transaction>>,
                             "admission")
    /\ rpc' = [rpc EXCEPT ![t] =
                 Settle(Advance([rpc[t] EXCEPT !.forwards = rpc[t].forwards + 1]),
                        now)]
    /\ UNCHANGED <<store, retry, shutdown, now, calls, ticks, ever_added, last_ok, admitted, tipcheck>>

\* self.txn_sender.send_transaction_batch(wired_transactions)
SendBatch(t) ==
    /\ rpc[t].pc = "send_batch"
    /\ sender' = SenderAfter(sender, rpc[t].wired_transactions, "admission")
    /\ rpc' = [rpc EXCEPT ![t] =
                 [rpc[t] EXCEPT !.forwards = rpc[t].forwards + 1, !.pc = "ret"]]
    /\ UNCHANGED <<store, retry, shutdown, now, calls, ticks, ever_added, last_ok, admitted, tipcheck>>

\* The call returns ReturnValue to the client.
Return(t) ==
    /\ rpc[t].pc = "ret"
    /\ last_ok' = IF rpc[t].kind = "single" /\ ReturnValue(rpc[t]).ok
                  THEN Some(rpc[t].batch[1])
                  ELSE None
    /\ rpc' = [rpc EXCEPT ![t] = IdleTask]
    /\ UNCHANGED <<store, retry, shutdown, now, sender, calls, ticks, ever_added,
                   admitted, tipcheck>>

(***************************************************************************)
(* The retry loop (spawn_retry_transactions_loop).                         *)
(***************************************************************************)
\* chain_state.confirm_signature_status(key): None or a confirming slot.
OracleAnswers == {None} \cup {Some(s) : s \in 0..MaxSlot}

\* The oracle confirms at slot 0 or not at all.
LiveAnswers == {None, Some(0)}

\* txn.value().sent_at.elapsed() > Duration::from_secs(60)
IsStale_AtLimit(txn, instant) == instant - txn.sent_at >= StaleAfterSecs
IsStale(txn, instant) == instant - txn.sent_at > StaleAfterSecs

\* The keys one pass of the scan pushes to transactions_to_remove, in order.
ScanRemovals_KeepExhausted(key, txn, answer, instant) ==
    (IF IsSome(answer) THEN <<key>> ELSE <<>>)
        \o (IF IsStale(txn, instant) THEN <<key>> ELSE <<>>)
ScanRemovals(key, txn, answer, instant) ==
    (IF IsSome(answer) THEN <<key>> ELSE <<>>)
        \o (IF IsStale(txn, instant) THEN <<key>> ELSE <<>>)
        \o (IF txn.retry_count = 0 THEN <<key>> ELSE <<>>)

\* slot.saturating_sub(txn.slot)
SlotLatency_Signed(slot, txn) == slot - txn.slot
SlotLatency(slot, txn) == SaturatingSub(slot, txn.slot)

\* The wires one pass of the scan pushes to transactions_to_send.
ScanSends_AtZero(txn) ==
    IF txn.retry_count >= 0 THEN <<txn.wire_transaction>> ELSE <<>>
ScanSends(txn) ==
    IF txn.retry_count > 0 THEN <<txn.wire_transaction>> ELSE <<>>

\* txn.retry_count = txn.retry_count.saturating_sub(1)
ScanDecrement(txn) ==
    [txn EXCEPT !.retry_count = SaturatingSub(txn.retry_count, 1)]

\* batches of transactions_to_send.chunks(10): the first of them.
FirstChunk_OneMore(to_send) ==
    SubSeq(to_send, 1, Min(RetryChunkSize + 1, Len(to_send)))
FirstChunk(to_send) == SubSeq(to_send, 1, Min(RetryChunkSize, Len(to_send)))
RestChunks(to_send) ==
    SubSeq(to_send, Min(RetryChunkSize, Len(to_send)) + 1, Len(to_send))

\* The retry task runs on to its next pass that touches the store or the
\* sender: a loop with nothing left to do is over, and after the last of
\* them the task sleeps retry_interval and is at the top again.
RECURSIVE RetrySettle_RemoveInScan(_)
RetrySettle_RemoveInScan(rt) ==
    IF rt.pc = "scan" /\ (rt.pending = {} \/ rt.transactions_to_remove # <<>>)
    THEN RetrySettle_RemoveInScan([rt EXCEPT !.pc = "remove"])
    ELSE IF rt.pc = "remove" /\ rt.transactions_to_remove = <<>>
    THEN RetrySettle_RemoveInScan(
            [rt EXCEPT !.pc = IF rt.pending = {} THEN "send" ELSE "scan"])
    ELSE IF rt.pc = "send" /\ rt.transactions_to_send = <<>>
    THEN [IdleRetry EXCEPT !.scanned = rt.scanned, !.batches = rt.batches]
    ELSE rt
RECURSIVE RetrySettle(_)
RetrySettle(rt) ==
    IF rt.pc = "scan" /\ rt.pending = {}
    THEN RetrySettle([rt EXCEPT !.pc = "remove"])
    ELSE IF rt.pc = "remove" /\ rt.transactions_to_remove = <<>>
    THEN RetrySettle([rt EXCEPT !.pc = "send"])
    ELSE IF rt.pc = "send" /\ rt.transactions_to_send = <<>>
    THEN [IdleRetry EXCEPT !.scanned = rt.scanned, !.batches = rt.batches]
    ELSE rt

\* The iteration view of the store (transactions_map.iter_mut()) is held
\* from the start of the scan until the iteration has visited its last
\* entry; has, add and remove wait for it where they share its lock.
ViewHeld(rt) == rt.pending # {}

\* The top of the loop: the cancellation flag, then get_transactions() and
\* the start of the iteration over the entries now in the map.
\* ticks counts the ticks started, up to max_ticks; with stop_at_cap the
\* loop starts no tick beyond max_ticks.
TickTopCapped_NoFlag(max_ticks, stop_at_cap) ==
    /\ retry.pc = "top"
    /\ stop_at_cap => ticks < max_ticks
    /\ retry' = RetrySettle([IdleRetry EXCEPT !.pc = "scan",
                                              !.pending = DOMAIN store])
    /\ ticks' = Min(ticks + 1, max_ticks)
    /\ UNCHANGED <<store, rpc, shutdown, now, sender, calls, ever_added, last_ok, admitted, tipcheck>>
TickTopCapped(max_ticks, stop_at_cap) ==
    /\ retry.pc = "top"
    /\ IF shutdown
       THEN /\ retry' = [retry EXCEPT !.pc = "exited"]
            /\ ticks' = ticks
       ELSE /\ stop_at_cap => ticks < max_ticks
            /\ retry' = RetrySettle([IdleRetry EXCEPT !.pc = "scan",
                                                      !.pending = DOMAIN store])
            /\ ticks' = Min(ticks + 1, max_ticks)
    /\ UNCHANGED <<store, rpc, shutdown, now, sender, calls, ever_added, last_ok, admitted, tipcheck>>

TickTopWithin(max_ticks) == TickTopCapped(max_ticks, TRUE)

TickTop == TickTopWithin(MaxTicks)

\* The iteration visits the entries in any order,
AnyKey(pending) == pending

\* or in the order of their transactions' numbers.
KeyNo(key) == CHOOSE n \in 1..NumWires : GetSignature(WireOf(n)) = key

FirstKey(pending) ==
    {key \in pending : \A other \in pending : KeyNo(key) <= KeyNo(other)}

\* One pass of `for mut txn in transactions_map.iter_mut()`, with the
\* oracle's answer drawn from answers and the entry visited next any of
\* those still to visit or, with in_order, the first of them.  With traced,
\* the tick keeps a history of the entries as it scanned them (scanned) and
\* of the batches it handed to the sender (batches), until the next tick
\* starts.
ScanEntryOf(answers, in_order, traced) ==
    /\ retry.pc = "scan"
    /\ \E key \in (IF in_order THEN FirstKey(retry.pending)
                              ELSE AnyKey(retry.pending)),
          answer \in answers :
          LET txn == store[key]
          IN  /\ retry' = RetrySettle([retry EXCEPT
                    !.pending = @ \ {key},
                    !.transactions_to_remove =
                        @ \o ScanRemovals(key, txn, answer, now),
                    !.transactions_to_send = @ \o ScanSends(txn),
                    !.scanned =
                        IF traced
                        THEN Append(@, [wire |-> txn.wire_transaction,
                                        retry_count |-> txn.retry_count])
                        ELSE @,
                    !.landed = IF IsSome(answer) THEN @ + 1 ELSE @,
                    !.latencies =
                        IF IsSome(answer)
                        THEN Append(@, SlotLatency(answer.val, txn))
                        ELSE @,
                    !.confirmed = IF IsSome(answer) THEN @ \cup {key} ELSE @,
                    !.confirmed_at =
                        IF IsSome(answer)
                        THEN [k \in DOMAIN @ \cup {key} |->
                                IF k = key THEN answer.val ELSE @[k]]
                        ELSE @])
              /\ store' = [store EXCEPT ![key] = ScanDecrement(txn)]
              /\ admitted' = [admitted EXCEPT ![key].scans = @ + 1]
    /\ UNCHANGED <<rpc, shutdown, now, sender, calls, ticks, ever_added, last_ok, tipcheck>>

ScanEntryWith(answers) == ScanEntryOf(answers, FALSE, FALSE)

ScanEntry == ScanEntryWith(LiveAnswers)

\* One pass of `for signature in transactions_to_remove`.
RemoveNext ==
    /\ retry.pc = "remove"
    /\ ~ViewHeld(retry)
    /\ LET signature == Head(retry.transactions_to_remove)
       IN  /\ store' = StoreRemove(store, signature)
           /\ retry' = RetrySettle([retry EXCEPT
                                      !.transactions_to_remove = Tail(@),
                                      !.removed = @ \cup {signature}])
           /\ rpc' = [t \in Tasks |->
                       IF /\ signature \in DOMAIN store
                          /\ signature \in Range(rpc[t].signatures)
                       THEN [rpc[t] EXCEPT !.evicted = @ \cup {signature}]
                       ELSE rpc[t]]
           /\ admitted' = [k \in DOMAIN admitted \ {signature} |-> admitted[k]]
    /\ UNCHANGED <<shutdown, now, sender, calls, ticks, ever_added, last_ok, tipcheck>>

\* One pass of `for batches in transactions_to_send.chunks(10)`.
SendChunkTraced(traced) ==
    /\ retry.pc = "send"
    /\ sender' = SenderAfter(sender, FirstChunk(retry.transactions_to_send),
                             "retry")
    /\ retry' = RetrySettle([retry EXCEPT
                               !.transactions_to_send = RestChunks(@),
                               !.batches =
                                   IF traced
                                   THEN Append(@, FirstChunk(retry.transactions_to_send))
                                   ELSE @])
    /\ UNCHANGED <<store, rpc, shutdown, now, calls, ticks, ever_added, last_ok, admitted, tipcheck>>

SendChunk == SendChunkTraced(FALSE)

(***************************************************************************)
(* The environment.                                                        *)
(***************************************************************************)
\* The owner of the flag sets it.
SetShutdown ==
    /\ ~shutdown
    /\ shutdown' = TRUE
    /\ UNCHANGED <<store, rpc, retry, now, sender, calls, ticks, ever_added, last_ok, admitted, tipcheck>>

\* Time passes: a second more than the stale_after period at a time.
ClockSteps == {StaleAfterSecs + 1}

AdvanceClockBy(steps, max_time) ==
    /\ \E d \in steps :
          /\ now + d <= max_time
          /\ now' = now + d
    /\ UNCHANGED <<store, rpc, retry, shutdown, sender, calls, ticks, ever_added, last_ok, admitted, tipcheck>>

AdvanceClock == AdvanceClockBy(ClockSteps, MaxTime)

Next ==
    \/ \E t \in Tasks : CallSingle(t)
    \/ \E t \in Tasks : CallBatch(t)
    \/ \E t \in Tasks : HasSignature(t)
    \/ \E t \in Tasks : Add(t)
    \/ \E t \in Tasks : Send(t)
    \/ \E t \in Tasks : SendBatch(t)
    \/ \E t \in Tasks : Return(t)
    \/ TickTop
    \/ ScanEntry
    \/ RemoveNext
    \/ SendChunk
    \/ AdvanceClock

\* The server while the cancellation flag stays unset.  Setting the flag
\* only stops the retry loop at the top of a tick, and a retry loop that
\* takes no more steps is a behaviour of Spec already.
Spec == Init /\ [][Next]_vars

\* The server with the cancellation flag set at any moment.
NextCancel == Next \/ SetShutdown
SpecCancel == Init /\ [][NextCancel]_vars

\* The server while the clock stands still: every request of Spec, the
\* retry loop and the oracle, and no entry ever stale.
NextSteady ==
    \/ \E t \in Tasks : CallSingle(t)
    \/ \E t \in Tasks : CallBatch(t)
    \/ \E t \in Tasks : HasSignature(t)
    \/ \E t \in Tasks : Add(t)
    \/ \E t \in Tasks : Send(t)
    \/ \E t \in Tasks : SendBatch(t)
    \/ \E t \in Tasks : Return(t)
    \/ TickTop
    \/ ScanEntry
    \/ RemoveNext
    \/ SendChunk

SpecSteady == Init /\ [][NextSteady]_vars

(***************************************************************************)
(* The retry budget on its own: every signature is admitted once, the      *)
(* oracle confirms nothing and the clock stands still, so that an entry    *)
(* leaves the store only when its retries are used up; the retry loop      *)
(* ticks often enough to use up the largest budget.                        *)
(***************************************************************************)
\* The signature of the transaction a client string encodes (under either
\* encoding), if it encodes one.
TextSignature(txn) ==
    LET d58 == DecodeAndDeserialize(txn, "base58")
        d64 == DecodeAndDeserialize(txn, "base64")
    IN  IF d58.ok THEN Some(GetSignature(d58.value.versioned_transaction))
        ELSE IF d64.ok THEN Some(GetSignature(d64.value.versioned_transaction))
        ELSE None

\* The strings of a batch none of which encodes a signature added before.
NotYetAdded(batch) ==
    \A j \in 1..Len(batch) :
        IsSome(TextSignature(batch[j])) =>
            TextSignature(batch[j]).val \notin ever_added

RetryInputs ==
    {<<"b58:w1", DefaultParams>>,
     <<"b58:w1", Params(TRUE, None, Some(0))>>,
     <<"b58:w1", Params(TRUE, None, Some(1))>>,
     <<"b64:w1", Params(TRUE, Some("base64"), Some(ServerMaxRetries + 1))>>}

RetryBatchInputs ==
    {<<<<"b58:w2">>, Params(TRUE, None, Some(1))>>,
     <<<<"b58:w2">>, Params(TRUE, None, Some(0))>>}

\* Ticks enough for an entry added with the largest budget to be scanned
\* until it is removed.
TicksToExhaust == ServerMaxRetries + 3

NextTicks ==
    \/ \E t \in Tasks :
          CallSingleOf(t, {input \in RetryInputs : NotYetAdded(<<input[1]>>)},
                       MaxCalls)
    \/ \E t \in Tasks :
          CallBatchOf(t, {input \in RetryBatchInputs : NotYetAdded(input[1])},
                      MaxCalls)
    \/ \E t \in Tasks : HasSignature(t)
    \/ \E t \in Tasks : Add(t)
    \/ \E t \in Tasks : Send(t)
    \/ \E t \in Tasks : SendBatch(t)
    \/ \E t \in Tasks : Return(t)
    \/ TickTopWithin(TicksToExhaust)
    \/ ScanEntryWith({None})
    \/ RemoveNext
    \/ SendChunk

SpecTicks == Init /\ [][NextTicks]_vars

(***************************************************************************)
(* The server with a retry loop that goes on ticking: the loop's task is   *)
(* scheduled again and again (the runtime runs every spawned task, and the *)
(* loop's sleep ends); a client is free to call or not, and time is free   *)
(* to pass or not.                                                         *)
(***************************************************************************)
LiveInputs ==
    {<<"b58:w1", DefaultParams>>,
     <<"b58:w1", Params(TRUE, None, Some(0))>>}

LiveBatchInputs == {<<<<"b58:w2">>, Params(TRUE, None, Some(1))>>}

RetryLoopStep ==
    \/ TickTopCapped(MaxTicks, FALSE)
    \/ ScanEntry
    \/ RemoveNext
    \/ SendChunk

NextLive ==
    \/ \E t \in Tasks : CallSingleOf(t, LiveInputs, MaxCalls)
    \/ \E t \in Tasks : CallBatchOf(t, LiveBatchInputs, MaxCalls)
    \/ \E t \in Tasks : HasSignature(t)
    \/ \E t \in Tasks : Add(t)
    \/ \E t \in Tasks : Send(t)
    \/ \E t \in Tasks : SendBatch(t)
    \/ \E t \in Tasks : Return(t)
    \/ TickTopCapped(MaxTicks, FALSE)
    \/ ScanEntry
    \/ RemoveNext
    \/ SendChunk
    \/ AdvanceClock

SpecLive ==
    /\ Init
    /\ [][NextLive]_vars
    /\ WF_vars(RetryLoopStep)

(***************************************************************************)
(* The server with the cancellation flag set at any moment, or never.  The *)
(* runtime goes on scheduling the retry loop's task and every call's task: *)
(* no step of either waits for anything but the store and the sender.      *)
(* The clock stands still.                                                 *)
(***************************************************************************)
AdmissionStep ==
    \E t \in Tasks :
        HasSignature(t) \/ Add(t) \/ Send(t) \/ SendBatch(t) \/ Return(t)

NextStop ==
    \/ \E t \in Tasks : CallSingleOf(t, LiveInputs, MaxCalls)
    \/ \E t \in Tasks : CallBatchOf(t, LiveBatchInputs, MaxCalls)
    \/ \E t \in Tasks : HasSignature(t)
    \/ \E t \in Tasks : Add(t)
    \/ \E t \in Tasks : Send(t)
    \/ \E t \in Tasks : SendBatch(t)
    \/ \E t \in Tasks : Return(t)
    \/ TickTopCapped(MaxTicks, FALSE)
    \/ ScanEntry
    \/ RemoveNext
    \/ SendChunk
    \/ SetShutdown

SpecStop ==
    /\ Init
    /\ [][NextStop]_vars
    /\ WF_vars(RetryLoopStep)
    /\ WF_vars(AdmissionStep)

(***************************************************************************)
(* The server with a store of one shard: the iteration holds the shard's   *)
(* lock for the whole scan, and every has and add of a call waits for it   *)
(* (the longest a call can wait under per-shard locks).  The runtime goes  *)
(* on scheduling the loop's task and every call's task.                    *)
(***************************************************************************)
LockedHasSignature(t) == ~ViewHeld(retry) /\ HasSignature(t)
LockedAdd(t) == ~ViewHeld(retry) /\ Add(t)

LockedAdmissionStep ==
    \E t \in Tasks :
        \/ LockedHasSignature(t)
        \/ LockedAdd(t)
        \/ Send(t)
        \/ SendBatch(t)
        \/ Return(t)

\* A batch that adds two entries the first scan marks for removal.
LockBatchInputs ==
    {<<<<"b58:w1", "b58:w2">>, Params(TRUE, None, Some(0))>>}

NextLock ==
    \/ \E t \in Tasks : CallSingleOf(t, LiveInputs, MaxCalls)
    \/ \E t \in Tasks : CallBatchOf(t, LockBatchInputs, MaxCalls)
    \/ \E t \in Tasks : LockedHasSignature(t)
    \/ \E t \in Tasks : LockedAdd(t)
    \/ \E t \in Tasks : Send(t)
    \/ \E t \in Tasks : SendBatch(t)
    \/ \E t \in Tasks : Return(t)
    \/ TickTopCapped(MaxTicks, FALSE)
    \/ ScanEntry
    \/ RemoveNext
    \/ SendChunk

SpecLock ==
    /\ Init
    /\ [][NextLock]_vars
    /\ WF_vars(RetryLoopStep)
    /\ WF_vars(LockedAdmissionStep)

(***************************************************************************)
(* The server with an oracle that confirms at any slot of the chain, at,   *)
(* after or before the slot an entry was admitted at.                      *)
(***************************************************************************)
NextMetrics ==
    \/ \E t \in Tasks : CallSingleOf(t, LiveInputs, MaxCalls)
    \/ \E t \in Tasks : CallBatchOf(t, LiveBatchInputs, MaxCalls)
    \/ \E t \in Tasks : HasSignature(t)
    \/ \E t \in Tasks : Add(t)
    \/ \E t \in Tasks : Send(t)
    \/ \E t \in Tasks : SendBatch(t)
    \/ \E t \in Tasks : Return(t)
    \/ TickTop
    \/ ScanEntryWith(OracleAnswers)
    \/ RemoveNext
    \/ SendChunk
    \/ AdvanceClock

SpecMetrics == Init /\ [][NextMetrics]_vars

(***************************************************************************)
(* The server with a clock that advances by the stale_after period or by   *)
(* a second more than it.                                                  *)
(***************************************************************************)
FineClockSteps == {StaleAfterSecs, StaleAfterSecs + 1}

NextClock ==
    \/ \E t \in Tasks : CallSingleOf(t, LiveInputs, MaxCalls)
    \/ \E t \in Tasks : CallBatchOf(t, LiveBatchInputs, MaxCalls)
    \/ \E t \in Tasks : HasSignature(t)
    \/ \E t \in Tasks : Add(t)
    \/ \E t \in Tasks : Send(t)
    \/ \E t \in Tasks : SendBatch(t)
    \/ \E t \in Tasks : Return(t)
    \/ TickTop
    \/ ScanEntry
    \/ RemoveNext
    \/ SendChunk
    \/ AdvanceClockBy(FineClockSteps, MaxTime)

SpecClock == Init /\ [][NextClock]_vars

(***************************************************************************)
(* The retransmission batches: a batch call of max_batch_size              *)
(* transactions and further calls fill the store beyond one chunk; the     *)
(* oracle confirms nothing and the clock stands still.  The iteration      *)
(* visits the entries in the order of their transactions' numbers (the     *)
(* order of the map's iteration is not the matter here), and the tick      *)
(* keeps its history.  Single calls run concurrently with the tick; a      *)
(* batch call and a tick do not overlap (Spec has their interleavings),    *)
(* and every signature is admitted once.                                   *)
(***************************************************************************)
\* A batch of max_batch_size transactions, w3 onwards.
FullBatch == [n \in 1..MaxBatchSize |-> Base58Of[WireOf(n + 2)]]

ChunkInputs ==
    {<<"b58:w1", Params(TRUE, None, Some(1))>>,
     <<"b58:w1", Params(TRUE, None, Some(0))>>}

ChunkBatchInputs ==
    {<<FullBatch, Params(TRUE, None, Some(1))>>,
     <<<<"b58:w2">>, Params(TRUE, None, Some(1))>>}

NextChunks ==
    \/ \E t \in Tasks :
          CallSingleOf(t, {input \in ChunkInputs : NotYetAdded(<<input[1]>>)},
                       MaxCalls)
    \/ \E t \in Tasks :
          /\ retry.pc = "top"
          /\ CallBatchOf(t, {input \in ChunkBatchInputs : NotYetAdded(input[1])},
                         MaxCalls)
    \/ \E t \in Tasks : HasSignature(t)
    \/ \E t \in Tasks : Add(t)
    \/ \E t \in Tasks : Send(t)
    \/ \E t \in Tasks : SendBatch(t)
    \/ \E t \in Tasks : Return(t)
    \/ (\A t \in Tasks : rpc[t].kind # "batch") /\ TickTop
    \/ ScanEntryOf({None}, TRUE, TRUE)
    \/ RemoveNext
    \/ SendChunkTraced(TRUE)

SpecChunks == Init /\ [][NextChunks]_vars

(***************************************************************************)
(* The tip policy on its own: pays_minimum_tip applied to transactions of  *)
(* up to MaxInstructions instructions, under each configuration of         *)
(* tip_address and minimum_tip.                                            *)
(***************************************************************************)
\* Account keys of the transactions: index 1 is the tip account, 2 the
\* system program; index 4 is out of range.
TipStaticKeys == <<"payer", TipAccount, SystemProgram, "other">>

\* Instructions: the program is the system program, another program or an
\* index out of range; the accounts have the tip account, another account
\* or an index out of range at position 1, or no position 1; the payload is
\* a transfer of the default minimum or a lamport less, another system
\* instruction, or bytes that do not deserialize.
TipInstructions ==
    [program_id_index : {2, 3, 4},
     accounts : {<<0, 1>>, <<0, 3>>, <<0, 4>>, <<1>>},
     data : {Transfer(DEFAULT_MINIMUM_TIP), Transfer(DEFAULT_MINIMUM_TIP - 1),
             [kind |-> "Other"], [kind |-> "Malformed"]}]

\* The transaction with the given instructions.
TipTransaction(instructions) ==
    [static_keys |-> TipStaticKeys, instructions |-> instructions]

TipAddresses == {None, Some(TipAccount)}

TipMinimums ==
    {None, Some(DEFAULT_MINIMUM_TIP - 1), Some(DEFAULT_MINIMUM_TIP + 1)}

InitTip ==
    /\ InitServer
    /\ \E k \in 0..MaxInstructions :
          \E instructions \in [1..k -> TipInstructions],
             addr \in TipAddresses, min \in TipMinimums :
             tipcheck = Some([tx |-> TipTransaction(instructions),
                              tip_address |-> addr,
                              minimum_tip |-> min, accepted |-> None])

\* self.pays_minimum_tip(&versioned_transaction)
CheckTip ==
    /\ IsSome(tipcheck)
    /\ ~IsSome(tipcheck.val.accepted)
    /\ tipcheck' =
          Some([tipcheck.val EXCEPT
                  !.accepted = Some(PaysMinimumTip(tipcheck.val.tx,
                                                   tipcheck.val.tip_address,
                                                   tipcheck.val.minimum_tip))])
    /\ UNCHANGED <<store, rpc, retry, shutdown, now, sender, calls, ticks,
                   ever_added, last_ok, admitted>>

NextTip == CheckTip

SpecTip == InitTip /\ [][NextTip]_vars

(***************************************************************************)
(* Properties.                                                             *)
(***************************************************************************)
\* The signatures a call that is returning Ok hands back.
Returned(r) == IF r.kind = "single" THEN {r.signature.val} ELSE Range(r.signatures)
ReturnsOk(r) == r.pc = "ret" /\ ReturnValue(r).ok
ReturnsErr(r) == r.pc = "ret" /\ ~ReturnValue(r).ok

\* C1 as stated: when an admission returns Ok, the store has an entry under
\* every signature it returns.
C1_StoredAtReturn ==
    \A t \in Tasks :
        ReturnsOk(rpc[t]) => \A sig \in Returned(rpc[t]) : StoreHas(store, sig)

\* C1, amended: when an admission returns Ok, the store has an entry under
\* every signature it returns, unless the retry loop removed that signature
\* after the call added it.
C1_StoredAtReturnUnlessEvicted ==
    \A t \in Tasks :
        ReturnsOk(rpc[t]) =>
            \A sig \in Returned(rpc[t]) :
                StoreHas(store, sig) \/ sig \in rpc[t].evicted

\* C1's case: send_transaction returns Ok while the retry loop is between
\* its scan and its sends, and the entry is in the store.
C1_Witness ==
    \E t \in Tasks :
        /\ ReturnsOk(rpc[t])
        /\ rpc[t].kind = "single"
        /\ retry.pc \in {"scan", "remove", "send"}
        /\ StoreHas(store, rpc[t].signature.val)

\* C2: the duplicate check of a send_transaction whose string is that of
\* the preceding, successful send_transaction, made while the entry is in
\* the store (with a request that passes the preflight, encoding and decode
\* checks), returns the duplicate error and touches neither the store nor
\* the sender.
C2_SecondCallIsDuplicate ==
    [][\A t \in Tasks :
        ( /\ rpc[t].pc = "has"
          /\ rpc[t].kind = "single"
          /\ rpc'[t] # rpc[t]
          /\ last_ok = Some(CurText(rpc[t]))
          /\ DecodeOutcome(CurText(rpc[t]), rpc[t].params).ok
          /\ StoreHas(store, TextSignature(CurText(rpc[t])).val) )
        => /\ rpc'[t].pc = "ret"
           /\ rpc'[t].result = Some(Err("duplicate transaction"))
           /\ store' = store
           /\ sender' = sender]_vars

\* C3: the TransactionData an admission builds has retry_count
\* min(requested, server max_retries) (server max_retries when nothing is
\* requested), and no entry of the store has more than the server's
\* max_retries.
C3_RetryCountCapped ==
    /\ \A t \in Tasks :
          IsSome(rpc[t].transaction) =>
              rpc[t].transaction.val.retry_count =
                  Min(UnwrapOr(rpc[t].params.max_retries, ServerMaxRetries),
                      ServerMaxRetries)
    /\ \A key \in DOMAIN store : store[key].retry_count <= ServerMaxRetries

\* C4: a send_transaction that returns an error has added nothing to the
\* store and has not called the sender.
C4_ErrorLeavesStore ==
    \A t \in Tasks :
        (rpc[t].kind = "single" /\ ReturnsErr(rpc[t])) =>
            /\ rpc[t].signatures = <<>>
            /\ rpc[t].wired_transactions = <<>>
            /\ rpc[t].forwards = 0

\* C4's case: send_transaction returns the tip error.
C4_Witness ==
    \E t \in Tasks :
        /\ rpc[t].kind = "single"
        /\ ReturnsErr(rpc[t])
        /\ ReturnValue(rpc[t]).reason =
               "no tip in the transaction or pays less than minimum tip"

\* C5: with a tip address configured, every transaction a batch call has
\* added to the store pays the minimum tip.
C5_BatchElementsPayTip ==
    \A t \in Tasks :
        rpc[t].kind = "batch" =>
            \A n \in 1..Len(rpc[t].wired_transactions) :
                PaysMinimumTip(TxTable[rpc[t].wired_transactions[n]],
                               tip_address, minimum_tip)

\* C6: a batch call with more than max_batch_size strings is at its return
\* of 'batch size exceeded', having added nothing and called the sender
\* never; a batch call with at most max_batch_size strings does not return
\* that error.
C6_BatchSize ==
    \A t \in Tasks :
        rpc[t].kind = "batch" =>
            IF Len(rpc[t].batch) > MaxBatchSize
            THEN /\ rpc[t].pc = "ret"
                 /\ rpc[t].result = Some(Err("batch size exceeded"))
                 /\ rpc[t].signatures = <<>>
                 /\ rpc[t].wired_transactions = <<>>
                 /\ rpc[t].forwards = 0
            ELSE rpc[t].result # Some(Err("batch size exceeded"))

\* C6's case: a batch of max_batch_size + 1 strings returns.
C6_Witness ==
    \E t \in Tasks :
        /\ rpc[t].kind = "batch"
        /\ rpc[t].pc = "ret"
        /\ Len(rpc[t].batch) = MaxBatchSize + 1

\* C7: a batch call that returns an error other than the size error stopped
\* at its element k = i: the error is that of element k (the duplicate error
\* or the error of its checks), the elements before k passed their checks,
\* were added in order and are in the store unless the retry loop removed
\* them since, nothing after k - 1 was added, and the sender was not called.
C7_BatchFailure ==
    \A t \in Tasks :
        LET r == rpc[t]
        IN  (r.kind = "batch" /\ ReturnsErr(r) /\ ~BatchTooLarge(r.batch)) =>
                /\ r.i \in 1..Len(r.batch)
                /\ \/ r.result = Some(Err("duplicate transaction"))
                   \/ r.result = Some(DecodeOutcome(r.batch[r.i], r.params))
                /\ Len(r.signatures) = r.i - 1
                /\ Len(r.wired_transactions) = r.i - 1
                /\ \A j \in 1..(r.i - 1) :
                      /\ DecodeOutcome(r.batch[j], r.params).ok
                      /\ TextSignature(r.batch[j]) = Some(r.signatures[j])
                      /\ \/ StoreHas(store, r.signatures[j])
                         \/ r.signatures[j] \in r.evicted
                /\ r.forwards = 0

\* C7's case: a batch fails at its third element with the two elements
\* before it in the store.
C7_Witness ==
    \E t \in Tasks :
        /\ rpc[t].kind = "batch"
        /\ ReturnsErr(rpc[t])
        /\ rpc[t].i = 3
        /\ \A j \in 1..2 : StoreHas(store, rpc[t].signatures[j])

\* C8: whenever an admission hands wires to the sender, each of them is a
\* wire this call has already passed to the store's add, under a signature
\* that has been added.
C8_AddBeforeFirstSend ==
    [][\A t \in Tasks :
        rpc'[t].forwards > rpc[t].forwards =>
            \A w \in DOMAIN sender' :
                Handed(sender', w).admission > Handed(sender, w).admission =>
                    /\ w \in Range(rpc[t].wired_transactions)
                    /\ GetSignature(w) \in Range(rpc[t].signatures)
                    /\ GetSignature(w) \in ever_added]_vars

\* C8's case: send_transaction has added and then sent, and is returning.
C8_Witness ==
    \E t \in Tasks :
        /\ rpc[t].kind = "single"
        /\ ReturnsOk(rpc[t])
        /\ rpc[t].forwards = 1
        /\ Handed(sender, rpc[t].wired_transactions[1]).admission > 0

\* C9 as stated: whenever the retry loop retransmits a wire, its signature
\* has been added and an admission has sent the wire before.
C9_RetransmitAfterFirstSend ==
    [][\A w \in DOMAIN sender' :
        Handed(sender', w).retry > Handed(sender, w).retry =>
            /\ GetSignature(w) \in ever_added
            /\ Handed(sender, w).admission > 0]_vars

\* C9, amended: whenever the retry loop retransmits a wire, its signature
\* has been added (the admission's first send may still be to come, or
\* never come).
C9_RetransmitAfterAdd ==
    [][\A w \in DOMAIN sender' :
        Handed(sender', w).retry > Handed(sender, w).retry =>
            GetSignature(w) \in ever_added]_vars

\* C9's case: a wire has been retransmitted that no admission has sent.
C9_Witness ==
    \E w \in DOMAIN sender :
        Handed(sender, w).retry > 0 /\ Handed(sender, w).admission = 0

\* C10: every entry the retry loop removes was confirmed by the oracle in
\* this tick, is older than stale_after, or has retry_count 0.
C10_RemovedForAReason ==
    [][(/\ retry.pc = "remove"
        /\ retry' # retry
        /\ StoreHas(store, Head(retry.transactions_to_remove))) =>
        LET signature == Head(retry.transactions_to_remove)
            txn == store[signature]
        IN  \/ signature \in retry.confirmed
            \/ IsStale(txn, now)
            \/ txn.retry_count = 0]_vars

\* C11: in every step, the retry_count of a signature that is in the store
\* before and after the step does not increase.
C11_RetryCountNeverIncreases ==
    [][\A S \in DOMAIN store \cap DOMAIN store' :
          store'[S].retry_count <= store[S].retry_count]_vars

\* A step of the retry loop's removal pass that removes an entry: its key.
RemovedKey == Head(retry.transactions_to_remove)
RemovesEntry ==
    /\ retry.pc = "remove"
    /\ retry' # retry
    /\ StoreHas(store, RemovedKey)

\* C12: an entry added with retry_count n, never confirmed, never stale and
\* not admitted again, has after its k-th scan retry_count max(n - k, 0) and
\* min(k, n) retransmissions (sent or queued in this tick), is scanned at
\* most n + 1 times and is marked for removal by scan n + 1; it is removed
\* only then, with exactly n retransmissions; an admission sends it at most
\* once.
C12_RetransmittedNTimes ==
    /\ [](\A S \in DOMAIN store :
            LET h == admitted[S]
                w == store[S].wire_transaction
                queued == CountIn(retry.transactions_to_send, w)
            IN  /\ store[S].retry_count = SaturatingSub(h.n, h.scans)
                /\ Handed(sender, w).retry + queued = Min(h.scans, h.n)
                /\ h.scans <= h.n + 1
                /\ h.scans = h.n + 1 =>
                       S \in Range(retry.transactions_to_remove)
                /\ Handed(sender, w).admission <= 1)
    /\ [][RemovesEntry =>
            LET h == admitted[RemovedKey]
                w == store[RemovedKey].wire_transaction
            IN  /\ h.scans = h.n + 1
                /\ Handed(sender, w).retry = h.n
                /\ CountIn(retry.transactions_to_send, w) = 0]_vars

\* C12's case: an entry added with the server's max_retries is about to be
\* removed, after that many retransmissions; and one added with 0.
C12_Witness ==
    /\ retry.pc = "remove"
    /\ StoreHas(store, RemovedKey)
    /\ admitted[RemovedKey].n = ServerMaxRetries
    /\ Handed(sender, store[RemovedKey].wire_transaction).retry = ServerMaxRetries

\* A pass of the retry loop's scan: the key it visits.
ScannedKey == CHOOSE k \in retry.pending \ retry'.pending : TRUE
ScansEntry == retry.pc = "scan" /\ retry.pending \ retry'.pending # {}

\* The signatures of the transactions the calls of SpecLive admit.
Signatures ==
    {TextSignature(input[1]).val : input \in LiveInputs}
        \cup UNION {{TextSignature(txn).val : txn \in Range(input[1])} :
                       input \in LiveBatchInputs}

\* C13: with the retry loop ticking on, every signature in the store is
\* eventually out of it; a scan that finds an entry confirmed, stale or at
\* retry_count 0 marks it for removal, and a tick does not end before it has
\* removed what it marked.
C13_EventuallyRemoved ==
    /\ \A S \in Signatures : StoreHas(store, S) ~> ~StoreHas(store, S)
    /\ [][ScansEntry =>
            LET txn == store[ScannedKey]
            IN  ( \/ ScannedKey \in retry'.confirmed
                  \/ IsStale(txn, now)
                  \/ txn.retry_count = 0 )
                => ScannedKey \in Range(retry'.transactions_to_remove)]_vars
    /\ [][RemovesEntry => ~StoreHas(store', RemovedKey)]_vars
    /\ [](retry.pc \notin {"scan", "remove"} =>
              retry.transactions_to_remove = <<>>)

\* C13's case: an entry with retries left is in the store after the last
\* call has returned, the retry loop at the top of a tick.
C13_Witness ==
    /\ calls = MaxCalls
    /\ \A t \in Tasks : rpc[t].pc = "idle"
    /\ retry.pc = "top"
    /\ \E S \in DOMAIN store : store[S].retry_count = ServerMaxRetries

\* C14: a scan for which the oracle gives a confirming slot adds exactly 1
\* to the landed counter and records the latency max(slot - entry's slot, 0),
\* and marks the key for removal; any other scan leaves both metrics as they
\* are.  A key confirmed in a tick is in the tick's removal list until the
\* tick has removed it, a removal takes the entry out of the store, and the
\* tick does not go on to its sends before the list is empty.
C14_LandedAndRemoved ==
    /\ [][ScansEntry =>
            LET txn == store[ScannedKey]
            IN  IF ScannedKey \in retry'.confirmed
                THEN LET slot == retry'.confirmed_at[ScannedKey]
                         latency == IF slot > txn.slot THEN slot - txn.slot
                                    ELSE 0
                     IN  /\ retry'.landed = retry.landed + 1
                         /\ retry'.latencies = Append(retry.latencies, latency)
                         /\ ScannedKey \in Range(retry'.transactions_to_remove)
                ELSE /\ retry'.landed = retry.landed
                     /\ retry'.latencies = retry.latencies]_vars
    /\ [](\A k \in retry.confirmed :
              k \in Range(retry.transactions_to_remove) \cup retry.removed)
    /\ [][RemovesEntry => ~StoreHas(store', RemovedKey)]_vars
    /\ [](retry.pc = "send" => retry.confirmed \subseteq retry.removed)

\* C14's case: the oracle has confirmed an entry at a slot after the one it
\* was admitted at, and the tick has removed it.
C14_Witness ==
    /\ retry.landed = 1
    /\ retry.latencies = <<1>>
    /\ retry.confirmed # {}
    /\ retry.confirmed \subseteq retry.removed
    /\ \A k \in retry.confirmed : ~StoreHas(store, k)

\* C15: a scan of an entry older than stale_after marks its key for removal,
\* whatever the retry_count and the oracle's answer; a scan of an entry of
\* age at most stale_after marks its key only if the oracle confirmed it or
\* its retry_count is 0.  A marked key stays in the removal list until the
\* tick removes it, a removal takes the entry out of the store, and the tick
\* does not go on before the list is empty.
C15_StaleBoundary ==
    /\ [][ScansEntry =>
            LET txn == store[ScannedKey]
                marked == ScannedKey \in Range(retry'.transactions_to_remove)
            IN  IF now - txn.sent_at > StaleAfterSecs
                THEN marked
                ELSE marked => \/ ScannedKey \in retry'.confirmed
                               \/ txn.retry_count = 0]_vars
    /\ [][\A k \in Range(retry.transactions_to_remove) :
              \/ k \in Range(retry'.transactions_to_remove)
              \/ retry.pc = "remove" /\ k = RemovedKey]_vars
    /\ [][RemovesEntry => ~StoreHas(store', RemovedKey)]_vars
    /\ [](retry.pc \notin {"scan", "remove"} =>
              Len(retry.transactions_to_remove) = 0)

\* C15's case: an entry of age exactly stale_after has been scanned and is
\* not marked, the tick at its sends.
C15_Witness ==
    /\ retry.pc = "send"
    /\ \E S \in DOMAIN store :
          /\ now - store[S].sent_at = StaleAfterSecs
          /\ admitted[S].scans = 1
          /\ S \notin retry.removed

\* The tip policy in the words of C16: does instruction ins of transaction
\* tx qualify?
C16_Qualifies(tx, ins, addr, min) ==
    /\ ins.program_id_index + 1 \in DOMAIN tx.static_keys
    /\ tx.static_keys[ins.program_id_index + 1] = SystemProgram
    /\ ins.data.kind = "Transfer"
    /\ Len(ins.accounts) >= 2
    /\ ins.accounts[2] + 1 \in DOMAIN tx.static_keys
    /\ tx.static_keys[ins.accounts[2] + 1] = addr.val
    /\ ins.data.lamports >= (IF min.some THEN min.val ELSE 1000)

\* C16: the tip policy accepts a transaction if and only if tip_address is
\* unset or some instruction, at any position, qualifies.
C16_TipPolicy ==
    (IsSome(tipcheck) /\ IsSome(tipcheck.val.accepted)) =>
        LET c == tipcheck.val
        IN  c.accepted.val <=>
               \/ ~c.tip_address.some
               \/ \E n \in DOMAIN c.tx.instructions :
                     C16_Qualifies(c.tx, c.tx.instructions[n],
                                   c.tip_address, c.minimum_tip)

\* C16's case: a transaction is accepted whose first instruction has a
\* program index out of range and whose second is the qualifying transfer.
C16_Witness ==
    /\ IsSome(tipcheck)
    /\ tipcheck.val.accepted = Some(TRUE)
    /\ tipcheck.val.tip_address = Some(TipAccount)
    /\ Len(tipcheck.val.tx.instructions) = 2
    /\ tipcheck.val.tx.instructions[1].program_id_index = 4
    /\ tipcheck.val.tx.instructions[2].data =
           Transfer(DEFAULT_MINIMUM_TIP - 1)

\* C17: in every step, the sent_at and the slot of a signature that is in
\* the store before and after the step are unchanged.
C17_WriteOnce ==
    [][\A S \in DOMAIN store \cap DOMAIN store' :
          /\ store'[S].sent_at = store[S].sent_at
          /\ store'[S].slot = store[S].slot]_vars

RECURSIVE Concat(_)
Concat(seqs) == IF seqs = <<>> THEN <<>> ELSE Head(seqs) \o Concat(Tail(seqs))

\* The wires of the entries of a tick's history that had retries left when
\* the tick scanned them, in the order of the scan.
ScannedWithRetriesLeft(scanned) ==
    LET left == SelectSeq(scanned, LAMBDA e : e.retry_count > 0)
    IN  [n \in 1..Len(left) |-> left[n].wire]

\* C18: every batch a tick hands to the sender has between 1 and
\* max_batch_size transactions, and when the tick is over its batches,
\* concatenated, are the wire transactions of the entries that had
\* retry_count > 0 when scanned, each once (none, and no batch, when there
\* was no such entry).
C18_TickBatches ==
    /\ \A n \in 1..Len(retry.batches) :
          Len(retry.batches[n]) \in 1..MaxBatchSize
    /\ retry.pc = "top" =>
          Concat(retry.batches) = ScannedWithRetriesLeft(retry.scanned)

\* C18's case: a tick that scanned eleven entries with retries left is
\* over and has handed over a batch of ten and a batch of one.
C18_Witness ==
    /\ retry.pc = "top"
    /\ Len(retry.scanned) = MaxBatchSize + 1
    /\ Len(retry.batches) = 2
    /\ Len(retry.batches[1]) = MaxBatchSize
    /\ Len(retry.batches[2]) = 1

\* C19: once the flag is set the retry loop starts no tick, and ends: it
\* finishes the tick in progress and exits at the top of the loop; an exited
\* loop takes no step, the sender gets no retransmission and the store
\* changes only by an admission's add; every call in progress returns.
C19_Cancellation ==
    /\ shutdown ~> retry.pc = "exited"
    /\ [][(shutdown /\ retry.pc = "top" /\ retry' # retry)
             => retry'.pc = "exited"]_vars
    /\ [][retry.pc = "exited" =>
            /\ retry' = retry
            /\ \A w \in Wires : Handed(sender', w).retry = Handed(sender, w).retry
            /\ store' # store =>
                  /\ DOMAIN store \subseteq DOMAIN store'
                  /\ \E t \in Tasks : rpc[t].pc = "add" /\ rpc'[t] # rpc[t]]_vars
    /\ \A t \in Tasks :
          (shutdown /\ rpc[t].pc # "idle") ~> rpc[t].pc = "idle"

\* C19's case: the loop has exited after a tick that retransmitted, and a
\* call in progress is about to add to the store.
C19_Witness ==
    /\ retry.pc = "exited"
    /\ \E w \in Wires : Handed(sender, w).retry > 0
    /\ \E t \in Tasks : rpc[t].pc = "add"

\* C20: while the tick holds the iteration view it removes nothing (a scan
\* leaves the keys of the store as they are and writes only the retry_count
\* of the entry it visits), it removes only when the view is released, and
\* every has and add of a call and every removal of the tick completes.
C20_NoDeadlock ==
    /\ [](retry.pc = "remove" => ~ViewHeld(retry))
    /\ [][ViewHeld(retry) =>
            /\ DOMAIN store' = DOMAIN store
            /\ \A k \in DOMAIN store :
                  store'[k] = store[k] \/ store'[k] = ScanDecrement(store[k])]_vars
    /\ \A t \in Tasks :
          /\ rpc[t].pc = "has" ~> rpc[t].pc # "has"
          /\ rpc[t].pc = "add" ~> rpc[t].pc # "add"
    /\ retry.pc = "remove" ~> retry.pc # "remove"

\* C20's case: a call waits to add while the tick holds the view and has
\* collected a key to remove.
C20_Witness ==
    /\ ViewHeld(retry)
    /\ retry.transactions_to_remove # <<>>
    /\ \E t \in Tasks : rpc[t].pc = "add"

====
